---- MODULE Spec2Model ----
(***************************************************************************)
(* Vinted Value Checker: the serverless analyze handler (src/api/test.js), *)
(* in its two variants (Gemini, lines 14-259; Groq, lines 261-493).        *)
(*                                                                         *)
(* One request is one run of the state machine.  Each action is one        *)
(* segment of the handler between two awaits; what the network answers is  *)
(* drawn with \E when the awaited promise settles.                         *)
(*                                                                         *)
(* Strings the regular expressions look at are sequences of tokens: a      *)
(* token is a marker ("RATING:", "ASSESSMENT:", in either case), one       *)
(* whitespace character, one digit, "-", ":" or one other character ("x"). *)
(***************************************************************************)
EXTENDS Integers, Sequences, FiniteSets, TLC

VARIABLES
    variant,      \* which analyze handler runs: "gemini" or "groq"
    req,          \* the incoming request: method and body
    apiKey,       \* process.env.GEMINI_API_KEY / GROQ_API_KEY
    pc,           \* position of the handler
    html,         \* fetchVintedListing's local: the page text, seen by its patterns
    listingData,  \* handler's local listingData
    requestBody,  \* the model request being built / sent
    reply,        \* what the model endpoint answered
    analysis,     \* handler's local analysis
    response,     \* what res.status(..).json(..) sent
    error,        \* the exception in flight or caught
    calls,        \* outbound network calls issued so far, in order
    stages,       \* pipeline stages entered so far, in order
    hidden,       \* page: the sections whose classList holds 'hidden'
    urlValue,     \* page: urlInput.value
    analyzeBtnDisabled,  \* page: analyzeBtn.disabled
    inflight,     \* page: the analyzeUrl calls awaited by handleAnalyze
    view,         \* page: the text the result and error elements show
    shown         \* page: showSection has run

\* the handler's variables
handlerVars == <<variant, req, apiKey, pc, html, listingData, requestBody, reply,
                 analysis, response, error, calls, stages>>

\* the page's variables
uiVars == <<hidden, urlValue, analyzeBtnDisabled, inflight, view, shown>>

vars == <<handlerVars, uiVars>>

----------------------------------------------------------------------------
(* Bounds of the model.                                                    *)

\* longest model reply, in tokens
MaxLen == 4
\* most image-URL matches in a page
MaxMatches == 2
\* most analyze requests the page has in flight at once
MaxInflight == 2

----------------------------------------------------------------------------
(* JavaScript values: a type tag and the value's string form.              *)

Undef == [t |-> "undefined", v |-> "undefined"]
Null == [t |-> "null", v |-> "null"]
Str(s) == [t |-> "string", v |-> s]
Num(s) == [t |-> "number", v |-> s]

\* ToBoolean: undefined, null, "" and 0 are falsy
Truthy(x) ==
    /\ x.t \notin {"undefined", "null"}
    /\ ~(x.t = "string" /\ x.v = "")
    /\ ~(x.t = "number" /\ x.v = "0")

\* a || b
OrElse(a, b) == IF Truthy(a) THEN a ELSE b

\* an Error object
Err(n, m) == [name |-> n, message |-> m]
NoError == Err("", "")

----------------------------------------------------------------------------
(* Response parser: parseAIResponse / parseGeminiResponse.                 *)

Tokens == {"RATING:", "rating:", "ASSESSMENT:", "assessment:",
           " ", "-", ":", "0", "4", "7", "x"}

Digits == <<"0", "1", "2", "3", "4", "5", "6", "7", "8", "9">>

\* \s
IsWs(t) == t \in {" ", "\n", "\t"}
\* \d
IsDigit(t) == \E i \in 1..Len(Digits) : Digits[i] = t
\* RATING: under the i flag
IsRatingMarker(t) == t \in {"RATING:", "rating:", "Rating:"}
\* ASSESSMENT: under the i flag
IsAssessmentMarker(t) == t \in {"ASSESSMENT:", "assessment:", "Assessment:"}

\* parseInt of one digit
parseInt(t) == (CHOOSE i \in 1..Len(Digits) : Digits[i] = t) - 1

\* where a greedy \s* that starts at position j stops
SkipWs(s, j) ==
    CHOOSE k \in j..(Len(s) + 1) :
        /\ \A m \in j..(k - 1) : IsWs(s[m])
        /\ (k = Len(s) + 1 \/ ~IsWs(s[k]))

\* String.prototype.trim
Trim(s) ==
    IF \A i \in 1..Len(s) : IsWs(s[i]) THEN <<>>
    ELSE LET a == CHOOSE i \in 1..Len(s) :
                      ~IsWs(s[i]) /\ \A m \in 1..(i - 1) : IsWs(s[m])
             b == CHOOSE i \in 1..Len(s) :
                      ~IsWs(s[i]) /\ \A m \in (i + 1)..Len(s) : IsWs(s[m])
         IN SubSeq(s, a, b)

\* positions where /RATING:\s*(\d)/i matches
RatingMatchAt(s, i) ==
    /\ IsRatingMarker(s[i])
    /\ SkipWs(s, i + 1) <= Len(s)
    /\ IsDigit(s[SkipWs(s, i + 1)])

\* text.match(/RATING:\s*(\d)/i): the leftmost match, or none
RatingMatch(s) ==
    IF \E i \in 1..Len(s) : RatingMatchAt(s, i)
    THEN LET i == CHOOSE k \in 1..Len(s) :
                      RatingMatchAt(s, k) /\ \A m \in 1..(k - 1) : ~RatingMatchAt(s, m)
         IN [found |-> TRUE, from |-> i, to |-> SkipWs(s, i + 1),
             group |-> s[SkipWs(s, i + 1)]]
    ELSE [found |-> FALSE, from |-> 0, to |-> 0, group |-> ""]

\* /ASSESSMENT:\s*([\s\S]+)/i matches at i when one character at least follows
AssessmentMatchAt(s, i) == IsAssessmentMarker(s[i]) /\ i < Len(s)

\* text.match(/ASSESSMENT:\s*([\s\S]+)/i): \s* is greedy but gives back its
\* last character when nothing else is left for the group
AssessmentMatch(s) ==
    IF \E i \in 1..Len(s) : AssessmentMatchAt(s, i)
    THEN LET i == CHOOSE k \in 1..Len(s) :
                      AssessmentMatchAt(s, k)
                      /\ \A m \in 1..(k - 1) : ~AssessmentMatchAt(s, m)
             j == SkipWs(s, i + 1)
             g == IF j <= Len(s) THEN j ELSE Len(s)
         IN [found |-> TRUE, group |-> SubSeq(s, g, Len(s))]
    ELSE [found |-> FALSE, group |-> <<>>]

\* text.replace(/RATING:\s*\d/i, '')
StripRating(s) ==
    LET m == RatingMatch(s)
    IN IF m.found THEN SubSeq(s, 1, m.from - 1) \o SubSeq(s, m.to + 1, Len(s))
       ELSE s

\* assessment.replace(/^\s*[-:]\s*/, '')
StripLead(s) ==
    LET j == SkipWs(s, 1)
    IN IF j <= Len(s) /\ s[j] \in {"-", ":"}
       THEN SubSeq(s, SkipWs(s, j + 1), Len(s))
       ELSE s

\* Clamp with the upper limit forgotten: Math.max(1, rating)
ClampNoMin(n) == IF n > 1 THEN n ELSE 1

\* Math.min(5, Math.max(1, rating))
Clamp(n) ==
    LET lo == IF n > 1 THEN n ELSE 1
    IN IF lo < 5 THEN lo ELSE 5

\* parseAIResponse (Groq variant)
parseAIResponse(text) ==
    LET ratingMatch == RatingMatch(text)
        rating == IF ratingMatch.found THEN parseInt(ratingMatch.group) ELSE 3
        assessmentMatch == AssessmentMatch(text)
        assessment == IF assessmentMatch.found
                      THEN Trim(assessmentMatch.group)
                      ELSE Trim(StripRating(text))
    IN [rating |-> Clamp(rating), assessment |-> StripLead(assessment)]

\* parseGeminiResponse (Gemini variant): the same text as parseAIResponse
parseGeminiResponse(text) ==
    LET ratingMatch == RatingMatch(text)
        rating == IF ratingMatch.found THEN parseInt(ratingMatch.group) ELSE 3
        assessmentMatch == AssessmentMatch(text)
        assessment == IF assessmentMatch.found
                      THEN Trim(assessmentMatch.group)
                      ELSE Trim(StripRating(text))
    IN [rating |-> Clamp(rating), assessment |-> StripLead(assessment)]

----------------------------------------------------------------------------
(* The listing page, as fetchVintedListing's patterns see it.              *)

\* the URL the request asks about
ListingUrl == "https://www.vinted.fr/items/1-wool-coat"

\* stands for the euro sign U+20AC of the source
EuroSign == "(euro)"

SchemaOrg == "https://schema.org/"

\* a parsed JSON-LD value: t is its JSON type; the fields are those of an object
JsonValue(t, name, brand, offers, description, itemCondition) ==
    [t |-> t, name |-> name, brand |-> brand, offers |-> offers,
     description |-> description, itemCondition |-> itemCondition]

\* jsonLd.brand: absent, a string, or an object with a name
Brand(t, name) == [t |-> t, name |-> name]
\* jsonLd.offers: absent, a string, or an object with price and priceCurrency
Offers(t, price, priceCurrency) ==
    [t |-> t, price |-> price, priceCurrency |-> priceCurrency]

NoBrand == Brand("undefined", Undef)
NoOffers == Offers("undefined", Undef, Undef)

\* JSON null, and what jsonLdData stays when the block is absent or unparseable
JsonNull == JsonValue("null", Undef, NoBrand, NoOffers, Undef, Undef)
\* a JSON number: not an object, it has none of the fields
JsonNumber == JsonValue("number", Undef, NoBrand, NoOffers, Undef, Undef)

Brands == {NoBrand, Brand("string", Undef), Brand("object", Str("Zara"))}

OffersValues ==
    {NoOffers,
     Offers("string", Undef, Undef),
     Offers("object", Str("45"), Str("EUR")),
     Offers("object", Str("45"), Str("GBP")),
     Offers("object", Str("45"), Undef)}

ItemConditions == {Undef, Str(SchemaOrg \o "UsedCondition"), Num("5")}

JsonObjects ==
    {JsonValue("object", n, b, o, d, c) :
        n \in {Undef, Str("Coat")}, b \in Brands, o \in OffersValues,
        d \in {Undef, Str("Warm")}, c \in ItemConditions}

\* the <script type="application/ld+json"> block of a page
LdBlocks ==
    {[script |-> "absent", value |-> JsonNull],
     [script |-> "invalid", value |-> JsonNull]}
    \cup {[script |-> "valid", value |-> v] :
             v \in {JsonNull, JsonNumber} \cup JsonObjects}

ImageUrls == {"https://images1.vinted.net/t/a.webp", "https://images1.vinted.net/t/b.webp"}

ImageMatches == UNION {[1..n -> ImageUrls] : n \in 0..MaxMatches}

\* a page: its JSON-LD block and the first match of each pattern (null: no match)
Htmls ==
    [loaded : {TRUE},
     ld : LdBlocks,
     ogTitle : {Null, Str("Wool Coat")},
     brandPattern : {Null, Str("Zara")},
     pricePattern : {Null, Str("45")},
     ogDescription : {Null, Str("Warm")},
     imageMatches : ImageMatches]

\* no page in scope
NoHtml ==
    [loaded |-> FALSE, ld |-> [script |-> "absent", value |-> JsonNull],
     ogTitle |-> Null, brandPattern |-> Null, pricePattern |-> Null,
     ogDescription |-> Null, imageMatches |-> <<>>]

----------------------------------------------------------------------------
(* HTML field extractors.                                                  *)

\* a completion: a returned value or a thrown error
Return(x) == [type |-> "return", value |-> x, error |-> NoError]
Throw(e) == [type |-> "throw", value |-> Undef, error |-> e]

\* the JSON-LD block parsed: the match, JSON.parse, the swallowed parse error
ParseJsonLd(h) == IF h.ld.script = "valid" THEN h.ld.value ELSE JsonNull

\* jsonLd?.f for a field f holding a plain value
Field(jsonLd, f) == IF jsonLd.t = "object" THEN jsonLd[f] ELSE Undef

extractTitle(h, jsonLd) ==
    IF Truthy(Field(jsonLd, "name")) THEN Field(jsonLd, "name") ELSE h.ogTitle

extractBrand(h, jsonLd) ==
    IF jsonLd.t = "object" /\ jsonLd.brand.t = "object" /\ Truthy(jsonLd.brand.name)
    THEN jsonLd.brand.name
    ELSE h.brandPattern

extractPrice(h, jsonLd) ==
    IF jsonLd.t = "object" /\ jsonLd.offers.t = "object" /\ Truthy(jsonLd.offers.price)
    THEN LET currency == OrElse(jsonLd.offers.priceCurrency, Str(EuroSign))
         IN Str((IF currency = Str("EUR") THEN EuroSign ELSE currency.v)
                \o jsonLd.offers.price.v)
    ELSE IF h.pricePattern # Null THEN Str(EuroSign \o h.pricePattern.v)
    ELSE Null

extractDescription(h, jsonLd) ==
    IF Truthy(Field(jsonLd, "description")) THEN Field(jsonLd, "description")
    ELSE h.ogDescription

\* s.replace('https://schema.org/', '') for the condition strings of the model
RemoveSchemaOrg(s) ==
    IF \E r \in {"UsedCondition", "NewCondition"} : s = SchemaOrg \o r
    THEN CHOOSE r \in {"UsedCondition", "NewCondition"} : s = SchemaOrg \o r
    ELSE s

\* a truthy itemCondition that is no string has no replace method
extractCondition(h, jsonLd) ==
    IF Truthy(Field(jsonLd, "itemCondition"))
    THEN IF Field(jsonLd, "itemCondition").t = "string"
         THEN Return(Str(RemoveSchemaOrg(Field(jsonLd, "itemCondition").v)))
         ELSE Throw(Err("TypeError", "jsonLd.itemCondition.replace is not a function"))
    ELSE Return(Null)

\* [...new Set(matches)]
Unique(s) ==
    LET F[i \in 0..Len(s)] ==
            IF i = 0 THEN <<>>
            ELSE IF \E k \in 1..Len(F[i - 1]) : F[i - 1][k] = s[i]
                 THEN F[i - 1]
                 ELSE Append(F[i - 1], s[i])
    IN F[Len(s)]

ImageCap == 5

extractImages(h) ==
    LET unique == Unique(h.imageMatches)
    IN SubSeq(unique, 1, IF Len(unique) < ImageCap THEN Len(unique) ELSE ImageCap)

Listing(title, brand, price, description, condition, images, url) ==
    [title |-> title, brand |-> brand, price |-> price, description |-> description,
     condition |-> condition, images |-> images, url |-> url]

\* no listing yet
NoListing == Listing(Undef, Undef, Undef, Undef, Undef, <<>>, "")

\* the minimum-data gate: throw when title and price are both falsy
GateFails(title, price) == ~Truthy(title) /\ ~Truthy(price)

ExtractionError ==
    Err("Error", "Could not extract listing data. The listing may be unavailable.")

\* fetchVintedListing from the page text on: parse the block, extract the
\* fields in the order of the object literal, apply the gate
ExtractListing(url, h) ==
    LET jsonLdData == ParseJsonLd(h)
        condition == extractCondition(h, jsonLdData)
    IN IF condition.type = "throw" THEN Throw(condition.error)
       ELSE IF GateFails(extractTitle(h, jsonLdData), extractPrice(h, jsonLdData))
       THEN Throw(ExtractionError)
       ELSE [type |-> "return", error |-> NoError,
             value |-> Listing(extractTitle(h, jsonLdData),
                               extractBrand(h, jsonLdData),
                               extractPrice(h, jsonLdData),
                               extractDescription(h, jsonLdData),
                               condition.value,
                               extractImages(h),
                               url)]

----------------------------------------------------------------------------
(* Requests, responses, outbound calls.                                    *)

Variants == {"gemini", "groq"}

\* req.body is absent, or an object whose url is absent, "" or the listing URL
Requests ==
    {[method |-> m, hasBody |-> FALSE, url |-> Undef] : m \in {"GET", "POST"}}
    \cup {[method |-> m, hasBody |-> TRUE, url |-> u] :
             m \in {"GET", "POST"}, u \in {Undef, Str(""), Str(ListingUrl)}}

ApiKeys == {Undef, Str("test-key")}

Item(title, brand, price, image) ==
    [title |-> title, brand |-> brand, price |-> price, image |-> image]
NoItem == Item(Undef, Undef, Undef, Undef)

\* a sent response: its status and the keys and values of its JSON body
ErrorResponse(status, message) ==
    [status |-> status, keys |-> {"error"}, error |-> message,
     rating |-> 0, assessment |-> <<>>, item |-> NoItem]
ResultResponse(rating, assessment, item) ==
    [status |-> 200, keys |-> {"rating", "assessment", "item"}, error |-> "",
     rating |-> rating, assessment |-> assessment, item |-> item]
NoResponse ==
    [status |-> 0, keys |-> {}, error |-> "", rating |-> 0, assessment |-> <<>>,
     item |-> NoItem]

\* one outbound call: what it is, whether an inline image part is attached, and
\* the status it was answered with (0: fetch rejected, no answer)
Call(kind, inline, status) == [kind |-> kind, inlineImage |-> inline, status |-> status]

\* fetch() rejected
NetworkError == Err("TypeError", "fetch failed")

\* status codes the listing page, the image host and the model endpoint answer
Statuses == {200, 404}
Ok(status) == status >= 200 /\ status <= 299

\* the model request: the prompt fields and the inline image part, if any
NoRequestBody ==
    [built |-> FALSE, title |-> "", brand |-> "", price |-> "", description |-> "",
     condition |-> "", imageNote |-> FALSE, inlineData |-> ""]

\* buildPrompt: the listing's fields, each with its default when falsy
buildPrompt(listing) ==
    [built |-> TRUE,
     title |-> OrElse(listing.title, Str("Unknown")).v,
     brand |-> OrElse(listing.brand, Str("Unknown")).v,
     price |-> OrElse(listing.price, Str("Unknown")).v,
     description |-> OrElse(listing.description, Str("No description")).v,
     condition |-> OrElse(listing.condition, Str("Unknown")).v,
     imageNote |-> FALSE,
     inlineData |-> ""]

\* the Gemini prompt also announces the attached image
buildPromptGemini(listing) ==
    [buildPrompt(listing) EXCEPT !.imageNote = Len(listing.images) > 0]

\* what the model endpoint's JSON body holds where the text is expected
NoReply == [t |-> "undefined", text |-> <<>>]
ReplySamples ==
    {<<"RATING:", " ", "7", " ", "ASSESSMENT:", " ", "x">>,
     <<"RATING:", " ", "4">>,
     <<"ASSESSMENT:">>,
     <<"x", "x">>}
Replies ==
    {NoReply, [t |-> "string", text |-> <<>>], [t |-> "number", text |-> <<>>]}
    \cup {[t |-> "string", text |-> s] : s \in ReplySamples}

NoAnalysis == [rating |-> 0, assessment |-> <<>>]

----------------------------------------------------------------------------
(* The presentation shell (src/app.js).                                    *)

Sections == {"inputSection", "loading", "resultsSection", "error"}

\* showSection without the four classList.add('hidden') lines
showSectionNoHide(h, section) == h \ {section}

\* showSection: hide the four sections, then show one
showSection(h, section) == (h \cup Sections) \ {section}

\* ratingLabels[rating] || 'Unknown'
ratingLabels(rating) ==
    CASE rating = 5 -> "Absolute Steal!"
      [] rating = 4 -> "Great Deal"
      [] rating = 3 -> "Fair Price"
      [] rating = 2 -> "Slightly Overpriced"
      [] rating = 1 -> "Overpriced"
      [] OTHER -> "Unknown"

\* what the user may have typed into urlInput
UrlValues == {"", "  ", "https://example.com/items/1", ListingUrl}

\* urlInput.value.trim()
TrimUrl(v) == IF v = "  " THEN "" ELSE v

\* url.includes('vinted.')
IncludesVinted(v) == v = ListingUrl

\* what the elements show: 0 and "" stand for nothing shown
NoView ==
    [rating |-> 0, ratingLabel |-> "", itemTitle |-> "", itemBrand |-> "",
     itemPrice |-> "", imageShown |-> FALSE, assessmentText |-> <<>>,
     errorMessage |-> ""]

\* the page before any request: the input section alone is visible
PageIdle ==
    /\ hidden = Sections \ {"inputSection"}
    /\ urlValue = ""
    /\ analyzeBtnDisabled = FALSE
    /\ inflight = <<>>
    /\ view = NoView
    /\ shown = FALSE

\* how fetch('/api/analyze') settles: rejected, or a response that is ok or
\* not, whose body is JSON or not
Answer(settled, ok, json, body) ==
    [settled |-> settled, ok |-> ok, json |-> json, body |-> body]

SampleItem == Item(Str("Wool Coat"), Null, Str(EuroSign \o "45"), Null)

Answers ==
    {Answer("rejected", FALSE, FALSE, NoResponse),
     Answer("response", FALSE, FALSE, NoResponse),
     Answer("response", FALSE, TRUE, NoResponse),
     Answer("response", FALSE, TRUE, ErrorResponse(400, "URL is required")),
     Answer("response", FALSE, TRUE, ErrorResponse(500, "AI analysis failed")),
     Answer("response", TRUE, FALSE, NoResponse),
     Answer("response", TRUE, TRUE, NoResponse),
     Answer("response", TRUE, TRUE, ResultResponse(5, <<"x">>, SampleItem)),
     Answer("response", TRUE, TRUE,
            ResultResponse(3, <<>>, Item(Null, Null, Null,
                                         Str("https://images1.vinted.net/t/a.webp"))))}

\* analyzeUrl once fetch has settled: the parsed body, or the error thrown
analyzeUrl(a) ==
    IF a.settled = "rejected"
    THEN [threw |-> TRUE, message |-> "Failed to fetch", data |-> NoResponse]
    ELSE IF ~a.json
    THEN [threw |-> TRUE, message |-> "Unexpected token < in JSON at position 0",
          data |-> NoResponse]
    ELSE IF ~a.ok
    THEN [threw |-> TRUE,
          message |-> IF a.body.error # "" THEN a.body.error
                      ELSE "Failed to analyze listing",
          data |-> NoResponse]
    ELSE [threw |-> FALSE, message |-> "", data |-> a.body]

\* x || '' as the text of an element
TextOr(x, default) == IF Truthy(x) THEN x.v ELSE default

\* displayResults up to showSection(resultsSection): the view it leaves, and
\* whether data.item was missing
displayResults(v, data) ==
    LET rated == [v EXCEPT !.rating = data.rating,
                           !.ratingLabel = ratingLabels(data.rating)]
    IN IF "item" \notin data.keys
       THEN [threw |-> TRUE,
             message |-> "Cannot read properties of undefined (reading 'title')",
             view |-> rated]
       ELSE [threw |-> FALSE, message |-> "",
             view |-> [rated EXCEPT
                          !.itemTitle = TextOr(data.item.title, "Unknown Item"),
                          !.itemBrand = TextOr(data.item.brand, ""),
                          !.itemPrice = TextOr(data.item.price, ""),
                          !.imageShown = Truthy(data.item.image),
                          !.assessmentText = data.assessment]]

\* displayError
displayError(message) ==
    /\ view' = [view EXCEPT !.errorMessage = message]
    /\ hidden' = showSection(hidden, "error")
    /\ shown' = TRUE

\* handleAnalyze, up to the await of analyzeUrl
handleAnalyze ==
    LET url == TrimUrl(urlValue)
    IN IF url = ""
       THEN UNCHANGED <<hidden, view, shown, analyzeBtnDisabled, inflight>>
       ELSE IF ~IncludesVinted(url)
       THEN /\ displayError("Please enter a valid Vinted URL")
            /\ UNCHANGED <<analyzeBtnDisabled, inflight>>
       ELSE /\ Len(inflight) < MaxInflight
            /\ hidden' = showSection(hidden, "loading")
            /\ shown' = TRUE
            /\ analyzeBtnDisabled' = TRUE
            /\ inflight' = Append(inflight, url)
            /\ view' = view

\* the user edits the URL field
TypeUrl ==
    /\ \E v \in UrlValues : urlValue' = v
    /\ UNCHANGED <<hidden, analyzeBtnDisabled, inflight, view, shown>>
    /\ UNCHANGED handlerVars

\* analyzeBtn click: a disabled button dispatches no click
AnalyzeClick ==
    /\ ~analyzeBtnDisabled
    /\ handleAnalyze
    /\ UNCHANGED urlValue
    /\ UNCHANGED handlerVars

\* urlInput keypress with e.key === 'Enter'
EnterKeypress ==
    /\ handleAnalyze
    /\ UNCHANGED urlValue
    /\ UNCHANGED handlerVars

\* reset
reset ==
    /\ urlValue' = ""
    /\ hidden' = showSection(hidden, "inputSection")
    /\ shown' = TRUE
    /\ UNCHANGED <<analyzeBtnDisabled, inflight, view>>

\* resetBtn click
ResetClick == reset /\ UNCHANGED handlerVars

\* retryBtn click
RetryClick == reset /\ UNCHANGED handlerVars

\* s without its i-th element
RemoveAt(s, i) == SubSeq(s, 1, i - 1) \o SubSeq(s, i + 1, Len(s))

\* handleAnalyze, from the settling of analyzeUrl on: try, catch, finally
RequestCompletes ==
    /\ \E i \in 1..Len(inflight), a \in Answers :
          LET result == analyzeUrl(a)
              shownResults == displayResults(view, result.data)
          IN /\ inflight' = RemoveAt(inflight, i)
             /\ IF result.threw
                THEN displayError(result.message)
                ELSE IF shownResults.threw
                THEN /\ view' = [shownResults.view EXCEPT
                                    !.errorMessage = shownResults.message]
                     /\ hidden' = showSection(hidden, "error")
                     /\ shown' = TRUE
                ELSE /\ view' = shownResults.view
                     /\ hidden' = showSection(hidden, "resultsSection")
                     /\ shown' = TRUE
    /\ analyzeBtnDisabled' = FALSE
    /\ UNCHANGED urlValue
    /\ UNCHANGED handlerVars

\* the page as loaded: which sections the markup hides is not the script's
\* doing; the handler is not part of the page
UiInit ==
    /\ hidden \in SUBSET Sections
    /\ urlValue = ""
    /\ analyzeBtnDisabled = FALSE
    /\ inflight = <<>>
    /\ view = NoView
    /\ shown = FALSE
    /\ variant = "groq"
    /\ req = [method |-> "POST", hasBody |-> TRUE, url |-> Str(ListingUrl)]
    /\ apiKey = Str("test-key")
    /\ pc = "start"
    /\ html = NoHtml
    /\ listingData = NoListing
    /\ requestBody = NoRequestBody
    /\ reply = NoReply
    /\ analysis = NoAnalysis
    /\ response = NoResponse
    /\ error = NoError
    /\ calls = <<>>
    /\ stages = <<>>

UiNext ==
    \/ TypeUrl
    \/ AnalyzeClick
    \/ EnterKeypress
    \/ ResetClick
    \/ RetryClick
    \/ RequestCompletes

UiSpec == UiInit /\ [][UiNext]_vars

----------------------------------------------------------------------------
(* The handler.                                                            *)

Init ==
    /\ variant \in Variants
    /\ req \in Requests
    /\ apiKey \in ApiKeys
    /\ pc = "start"
    /\ html = NoHtml
    /\ listingData = NoListing
    /\ requestBody = NoRequestBody
    /\ reply = NoReply
    /\ analysis = NoAnalysis
    /\ response = NoResponse
    /\ error = NoError
    /\ calls = <<>>
    /\ stages = <<>>
    /\ PageIdle

\* the url check testing for undefined only: if (url === undefined)
UrlMissingOnlyUndefined(r) == r.url.t = "undefined"

\* if (!url)
UrlMissing(r) == ~Truthy(r.url)

\* handler, up to the try block: the method check, const { url } = req.body,
\* the url check
Validate ==
    /\ pc = "start"
    /\ IF req.method # "POST"
       THEN /\ response' = ErrorResponse(405, "Method not allowed")
            /\ pc' = "done"
            /\ error' = error
       ELSE IF ~req.hasBody
       THEN /\ error' = Err("TypeError", "Cannot destructure property 'url' of 'req.body' as it is undefined.")
            /\ pc' = "crashed"
            /\ response' = response
       ELSE IF UrlMissing(req)
       THEN /\ response' = ErrorResponse(400, "URL is required")
            /\ pc' = "done"
            /\ error' = error
       ELSE /\ pc' = "fetchListing"
            /\ UNCHANGED <<response, error>>
    /\ UNCHANGED <<uiVars, variant, req, apiKey, html, listingData, requestBody, reply,
                   analysis, calls, stages>>

\* fetchVintedListing without its check of response.ok
ListingFetchedUnchecked(status) == "readBody"

\* fetchVintedListing fetching again on a status that is not ok
ListingFetchedRetry(status) == IF Ok(status) THEN "readBody" ELSE "fetchListing"

\* where the handler goes on the listing GET's answer: if (!response.ok) throw
ListingFetched(status) == IF Ok(status) THEN "readBody" ELSE "catch"

\* fetchVintedListing: the GET of the listing page and the check of its status
FetchListing ==
    /\ pc = "fetchListing"
    /\ stages' = Append(stages, "Fetch")
    /\ \/ /\ calls' = Append(calls, Call("listingGET", FALSE, 0))
          /\ error' = NetworkError
          /\ pc' = "catch"
       \/ \E status \in Statuses :
             /\ calls' = Append(calls, Call("listingGET", FALSE, status))
             /\ pc' = ListingFetched(status)
             /\ error' = IF Ok(status) THEN error
                         ELSE Err("Error", "Failed to fetch Vinted listing")
    /\ UNCHANGED <<uiVars, variant, req, apiKey, html, listingData, requestBody, reply,
                   analysis, response>>

\* fetchVintedListing: the page text, the JSON-LD block, the fields, the gate
ReadBody ==
    /\ pc = "readBody"
    /\ \E h \in Htmls :
          /\ html' = h
          /\ LET r == ExtractListing(req.url.v, h)
             IN IF r.type = "throw"
                THEN /\ error' = r.error
                     /\ pc' = "catch"
                     /\ listingData' = listingData
                ELSE /\ listingData' = r.value
                     /\ pc' = "analyze"
                     /\ error' = error
    /\ UNCHANGED <<uiVars, variant, req, apiKey, requestBody, reply, analysis, response,
                   calls, stages>>

\* analyzeWithGroq, up to the model call: the key check, the prompt
AnalyzeWithGroq ==
    /\ pc = "analyze"
    /\ variant = "groq"
    /\ html' = NoHtml
    /\ IF ~Truthy(apiKey)
       THEN /\ error' = Err("Error", "GROQ_API_KEY environment variable not set")
            /\ pc' = "catch"
            /\ requestBody' = requestBody
       ELSE /\ requestBody' = buildPrompt(listingData)
            /\ pc' = "callModel"
            /\ error' = error
    /\ UNCHANGED <<uiVars, variant, req, apiKey, listingData, reply, analysis, response,
                   calls, stages>>

\* analyzeWithGemini, up to the image download: the prompt, the request body
AnalyzeWithGemini ==
    /\ pc = "analyze"
    /\ variant = "gemini"
    /\ html' = NoHtml
    /\ requestBody' = buildPromptGemini(listingData)
    /\ pc' = IF Len(listingData.images) > 0 THEN "fetchImage" ELSE "callModel"
    /\ UNCHANGED <<uiVars, variant, req, apiKey, listingData, reply, analysis, response,
                   error, calls, stages>>

\* the inline part made of whatever body the image GET answered with
InlineData(status) == IF Ok(status) THEN "image-bytes" ELSE "error-page-bytes"

\* analyzeWithGemini: the download of the first image, in its own try/catch
FetchImage ==
    /\ pc = "fetchImage"
    /\ \/ /\ calls' = Append(calls, Call("imageGET", FALSE, 0))
          /\ requestBody' = requestBody
       \/ \E status \in Statuses :
             /\ calls' = Append(calls, Call("imageGET", FALSE, status))
             /\ requestBody' = [requestBody EXCEPT !.inlineData = InlineData(status)]
    /\ pc' = "callModel"
    /\ UNCHANGED <<uiVars, variant, req, apiKey, html, listingData, reply, analysis,
                   response, error, stages>>

\* the error thrown for a model endpoint status that is not ok
ModelStatusError(status) ==
    IF variant = "groq"
    THEN Err("Error", "AI analysis failed: " \o ToString(status) \o " - " \o "not found")
    ELSE Err("Error", "AI analysis failed")

\* the POST to the model endpoint and the check of its status
CallModel ==
    /\ pc = "callModel"
    /\ stages' = Append(stages, "CallModel")
    /\ \/ /\ calls' = Append(calls, Call("modelPOST", requestBody.inlineData # "", 0))
          /\ error' = NetworkError
          /\ pc' = "catch"
       \/ \E status \in Statuses :
             /\ calls' = Append(calls, Call("modelPOST", requestBody.inlineData # "", status))
             /\ IF Ok(status)
                THEN pc' = "readReply" /\ error' = error
                ELSE pc' = "catch" /\ error' = ModelStatusError(status)
    /\ UNCHANGED <<uiVars, variant, req, apiKey, html, listingData, requestBody, reply,
                   analysis, response>>

\* response.json() and the text picked out of it
ReadReply ==
    /\ pc = "readReply"
    /\ \/ /\ error' = Err("SyntaxError", "Unexpected token < in JSON at position 0")
          /\ pc' = "catch"
          /\ reply' = reply
       \/ \E r \in Replies :
             /\ reply' = r
             /\ IF r.t = "undefined" \/ (r.t = "string" /\ r.text = <<>>)
                THEN pc' = "catch" /\ error' = Err("Error", "No analysis generated")
                ELSE pc' = "parse" /\ error' = error
    /\ UNCHANGED <<uiVars, variant, req, apiKey, html, listingData, requestBody, analysis,
                   response, calls, stages>>

\* the variant's parser
ParseText(text) ==
    IF variant = "groq" THEN parseAIResponse(text) ELSE parseGeminiResponse(text)

\* return parseAIResponse(text) / parseGeminiResponse(text)
Parse ==
    /\ pc = "parse"
    /\ stages' = Append(stages, "Parse")
    /\ IF reply.t # "string"
       THEN /\ error' = Err("TypeError", "text.match is not a function")
            /\ pc' = "catch"
            /\ analysis' = analysis
       ELSE /\ analysis' = ParseText(reply.text)
            /\ pc' = "respond"
            /\ error' = error
    /\ UNCHANGED <<uiVars, variant, req, apiKey, html, listingData, requestBody, reply,
                   response, calls>>

\* listingData.images[0] || null
FirstImage(listing) ==
    IF Len(listing.images) > 0 THEN Str(listing.images[1]) ELSE Null

\* handler: the 200 response
Respond ==
    /\ pc = "respond"
    /\ stages' = Append(stages, "Respond")
    /\ response' = ResultResponse(analysis.rating, analysis.assessment,
                                  Item(listingData.title, listingData.brand,
                                       listingData.price, FirstImage(listingData)))
    /\ pc' = "done"
    /\ UNCHANGED <<uiVars, variant, req, apiKey, html, listingData, requestBody, reply,
                   analysis, error, calls>>

\* error.message || 'Failed to analyze listing'
ErrorMessage(e) == IF e.message # "" THEN e.message ELSE "Failed to analyze listing"

\* handler: the catch block
Catch ==
    /\ pc = "catch"
    /\ stages' = Append(stages, "Respond")
    /\ response' = ErrorResponse(500, ErrorMessage(error))
    /\ html' = NoHtml
    /\ pc' = "done"
    /\ UNCHANGED <<uiVars, variant, req, apiKey, listingData, requestBody, reply, analysis,
                   error, calls>>

Next ==
    \/ Validate
    \/ FetchListing
    \/ ReadBody
    \/ AnalyzeWithGroq
    \/ AnalyzeWithGemini
    \/ FetchImage
    \/ CallModel
    \/ ReadReply
    \/ Parse
    \/ Respond
    \/ Catch

Spec == Init /\ [][Next]_vars

----------------------------------------------------------------------------
(* The response parser on every reply of up to MaxLen tokens: the handler  *)
(* taken up where the model's reply has been read.                         *)

ParseTexts == UNION {[1..n -> Tokens] : n \in 1..MaxLen}

\* a listing read from a page with an og:title and a price pattern only
SampleListing ==
    Listing(Str("Wool Coat"), Null, Str(EuroSign \o "45"), Null, Null, <<>>, ListingUrl)

ParseInit ==
    /\ variant \in Variants
    /\ req = [method |-> "POST", hasBody |-> TRUE, url |-> Str(ListingUrl)]
    /\ apiKey = Str("test-key")
    /\ pc = "parse"
    /\ html = NoHtml
    /\ listingData = SampleListing
    /\ requestBody = buildPrompt(SampleListing)
    /\ reply \in {[t |-> "number", text |-> <<>>]}
                 \cup {[t |-> "string", text |-> s] : s \in ParseTexts}
    /\ analysis = NoAnalysis
    /\ response = NoResponse
    /\ error = NoError
    /\ calls = <<Call("listingGET", FALSE, 200), Call("modelPOST", FALSE, 200)>>
    /\ stages = <<"Fetch", "CallModel">>
    /\ PageIdle

ParseNext == Parse \/ Respond \/ Catch

ParseSpec == ParseInit /\ [][ParseNext]_vars

----------------------------------------------------------------------------
(* Properties.                                                             *)

\* the request is one the handler accepts
ValidRequest == req.method = "POST" /\ req.hasBody /\ Truthy(req.url)

\* the request is not a POST, or a POST whose body holds no truthy url
InvalidRequest == req.method # "POST" \/ (req.hasBody /\ ~Truthy(req.url))

\* outbound calls of one kind issued so far
CallsOf(kind) == {i \in 1..Len(calls) : calls[i].kind = kind}

\* C1: a request that is not a POST is answered 405 'Method not allowed', a POST
\* whose body holds no truthy url is answered 400 'URL is required', and in
\* neither case is any outbound call made
C1_InvalidRequestRejected ==
    InvalidRequest =>
        /\ calls = <<>>
        /\ pc \in {"start", "done"}
        /\ pc = "done" =>
              response = IF req.method # "POST"
                         THEN ErrorResponse(405, "Method not allowed")
                         ELSE ErrorResponse(400, "URL is required")

\* C1 witness: the body {} has been answered 400 with no call made
C1_Witness ==
    /\ pc = "done"
    /\ req = [method |-> "POST", hasBody |-> TRUE, url |-> Undef]
    /\ response.status = 400
    /\ calls = <<>>

\* the text holds a RATING: marker followed, after optional whitespace, by a digit
HasRatingDigit(s) ==
    \E i \in 1..Len(s), j \in 1..Len(s) :
        /\ i < j
        /\ IsRatingMarker(s[i])
        /\ IsDigit(s[j])
        /\ \A m \in (i + 1)..(j - 1) : IsWs(s[m])

\* C2: the parsed rating is an integer in 1..5, and it is 3 when the text holds
\* no RATING: marker followed by a digit
C2_RatingInRange ==
    (pc = "respond" /\ reply.t = "string") =>
        /\ analysis.rating \in 1..5
        /\ ~HasRatingDigit(reply.text) => analysis.rating = 3

\* C2 witness: the two-digit rating 74 has been parsed to 5
C2_Witness ==
    /\ pc = "respond"
    /\ reply.text = <<"RATING:", " ", "7", "4">>
    /\ analysis.rating = 5

\* C3: with the API key absent, no outbound call is issued at any point of the
\* request, and the request ends in a 500 naming the missing key
C3_KeyCheckedBeforeAnyCall ==
    (ValidRequest /\ ~Truthy(apiKey)) =>
        /\ calls = <<>>
        /\ pc = "done" =>
              /\ response.status = 500
              /\ response.error \in {"GROQ_API_KEY environment variable not set",
                                     "GEMINI_API_KEY environment variable not set"}

\* C4: once the page has been read, the fetcher fails with the extraction error
\* exactly when the extracted title and price are both absent, and returns the
\* listing whenever one of them is present
C4_GateIffBothAbsent ==
    html.loaded =>
        LET jsonLd == ParseJsonLd(html)
            title == extractTitle(html, jsonLd)
            price == extractPrice(html, jsonLd)
        IN /\ (pc = "catch" /\ error = ExtractionError)
                  <=> (~Truthy(title) /\ ~Truthy(price))
           /\ (Truthy(title) \/ Truthy(price)) =>
                  /\ pc = "analyze"
                  /\ listingData.title = title
                  /\ listingData.price = price

\* the listing page answered with a status that is not a success
ListingStatusNotOk ==
    /\ Len(calls) >= 1
    /\ calls[1].kind = "listingGET"
    /\ calls[1].status # 0
    /\ ~Ok(calls[1].status)

\* C5, as stated: a listing page status that is not a success ends in a 500
\* with { error: "Failed to fetch listing" } and no model call
C5_FailedToFetchListing ==
    ListingStatusNotOk =>
        /\ CallsOf("modelPOST") = {}
        /\ pc \in {"catch", "done"}
        /\ pc = "done" => response = ErrorResponse(500, "Failed to fetch listing")

\* C5, amended: a listing page status that is not a success ends in a 500 with
\* { error: "Failed to fetch Vinted listing" } and no model call
C5_FailedToFetchVintedListing ==
    ListingStatusNotOk =>
        /\ CallsOf("modelPOST") = {}
        /\ pc \in {"catch", "done"}
        /\ pc = "done" => response = ErrorResponse(500, "Failed to fetch Vinted listing")

\* C5 witness: the listing page answered 404 and the handler has responded 500
C5_Witness ==
    /\ pc = "done"
    /\ calls = <<Call("listingGET", FALSE, 404)>>
    /\ response.status = 500

\* the structured-data block is absent, unparseable, or of an unexpected shape
UnexpectedBlock(h) ==
    \/ h.ld.script # "valid"
    \/ h.ld.value.t # "object"
    \/ h.ld.value.brand.t = "string"
    \/ h.ld.value.offers.t = "string"
    \/ h.ld.value.itemCondition.t \notin {"undefined", "string"}

\* C6: on a structured-data block that is absent, unparseable or of an
\* unexpected shape no field extractor throws: the only failure after the page
\* has been read is the minimum-data gate
C6_NoExtractorThrows ==
    (html.loaded /\ UnexpectedBlock(html)) =>
        /\ extractCondition(html, ParseJsonLd(html)).type = "return"
        /\ pc = "catch" => error = ExtractionError

\* the download of the first image failed: fetch rejected, or a status not ok
ImageDownloadFailed ==
    \E i \in CallsOf("imageGET") : ~Ok(calls[i].status)

\* C7: after a failed image download the analysis goes on: the model call is
\* issued, once, with no inline image part
C7_ImageFailureTextOnly ==
    ImageDownloadFailed =>
        /\ requestBody.inlineData = ""
        /\ \A i \in CallsOf("modelPOST") : ~calls[i].inlineImage
        /\ \/ pc = "callModel" /\ CallsOf("modelPOST") = {}
           \/ Cardinality(CallsOf("modelPOST")) = 1

\* the text holds an ASSESSMENT: marker
HasAssessmentMarker(s) == \E i \in 1..Len(s) : IsAssessmentMarker(s[i])

\* the text after the first ASSESSMENT: marker, to the end
AfterFirstMarker(s) ==
    LET i == CHOOSE k \in 1..Len(s) :
                 IsAssessmentMarker(s[k]) /\ \A m \in 1..(k - 1) : ~IsAssessmentMarker(s[m])
    IN SubSeq(s, i + 1, Len(s))

\* C8: for a text holding an ASSESSMENT: marker, the parsed assessment is the
\* text after the first marker, trimmed, less one leading "-" or ":" and the
\* whitespace after it
C8_AssessmentIsTextAfterMarker ==
    (pc = "respond" /\ reply.t = "string" /\ HasAssessmentMarker(reply.text)) =>
        analysis.assessment = StripLead(Trim(AfterFirstMarker(reply.text)))

\* C9: the assessment of every parsed non-empty reply is non-empty and trimmed
C9_AssessmentNonEmptyTrimmed ==
    (pc = "respond" /\ reply.t = "string" /\ reply.text # <<>>) =>
        /\ analysis.assessment # <<>>
        /\ Trim(analysis.assessment) = analysis.assessment

\* the stages before the response, in pipeline order
StageOrder == <<"Fetch", "CallModel", "Parse">>

\* s is the first n stages of the pipeline, for some n
InPipelineOrder(s) == \E n \in 0..Len(StageOrder) : s = SubSeq(StageOrder, 1, n)

\* the stages are entered in order, each at most once; the model is called only
\* after the listing was fetched and passed the gate; no call is repeated; an
\* error response holds only the error; a 200 means every stage succeeded
C10_Linear ==
    /\ \/ InPipelineOrder(stages)
       \/ /\ stages # <<>>
          /\ stages[Len(stages)] = "Respond"
          /\ InPipelineOrder(SubSeq(stages, 1, Len(stages) - 1))
    /\ \A k \in {"listingGET", "imageGET", "modelPOST"} : Cardinality(CallsOf(k)) <= 1
    /\ (CallsOf("modelPOST") # {} \/ \E i \in 1..Len(stages) : stages[i] = "CallModel") =>
          /\ calls[1].kind = "listingGET" /\ Ok(calls[1].status)
          /\ listingData # NoListing
          /\ ~GateFails(listingData.title, listingData.price)
    /\ response.status \notin {0, 200} =>
          /\ response.keys = {"error"}
          /\ response.rating = 0 /\ response.assessment = <<>> /\ response.item = NoItem
    /\ response.status = 200 =>
          /\ stages = <<"Fetch", "CallModel", "Parse", "Respond">>
          /\ error = NoError
          /\ \A i \in 1..Len(calls) : calls[i].kind # "imageGET" => Ok(calls[i].status)
          /\ reply.t = "string" /\ reply.text # <<>>
          /\ response.keys = {"rating", "assessment", "item"}
          /\ response.rating = analysis.rating
          /\ response.assessment = analysis.assessment

\* once a stage has failed, the only step left is the error response: no call
\* and no stage follows
C10_ShortCircuit ==
    error # NoError =>
        /\ pc' = "done"
        /\ response'.status = 500
        /\ calls' = calls
        /\ stages' = Append(stages, "Respond")
        /\ analysis' = analysis

\* C10: a valid POST goes through Fetch, Call Model, Parse, Respond in that
\* order, each at most once; the model is called only after the fetch succeeded
\* and the gate passed; a failure leads straight to the error response; an
\* error response holds no result field and a 200 is sent only when every stage
\* succeeded
C10_LinearPipeline == [](ValidRequest => C10_Linear) /\ [][C10_ShortCircuit]_vars

\* C10 witness: a request has gone through all four stages to a 200
C10_Witness ==
    /\ pc = "done"
    /\ response.status = 200
    /\ stages = <<"Fetch", "CallModel", "Parse", "Respond">>
    /\ Len(calls) = 3

\* C11: no exception escapes the handler: every finished request has been
\* answered, once, and an exception thrown on the way has become a 500 whose
\* error field is the exception's message
C11_NoExceptionEscapes ==
    /\ pc # "crashed"
    /\ pc = "done" => response.status # 0
    /\ response.status # 0 => pc = "done"
    /\ (pc = "done" /\ error # NoError) => response = ErrorResponse(500, error.message)

\* the sections that are visible
Visible == Sections \ hidden

\* a request completes in this step
Completes == Len(inflight') < Len(inflight)

\* C12: once showSection has run, exactly one of the four sections is visible;
\* the loading section is visible only while a request is in flight; and every
\* request, when it completes, leaves the results or the error section visible
C12_OneSectionVisible ==
    /\ [](shown => /\ Cardinality(Visible) = 1
                   /\ "loading" \in Visible => inflight # <<>>)
    /\ [][Completes => (shown' /\ (Visible' = {"resultsSection"} \/ Visible' = {"error"}))]_vars

\* C12 witness: with two requests in flight, one has completed into the
\* results section while the other is still awaited
C12_Witness ==
    /\ shown
    /\ Visible = {"resultsSection"}
    /\ Len(inflight) = 1
    /\ view.rating = 5
    /\ ~analyzeBtnDisabled

====
